---- MODULE Spec2Model ----
(***************************************************************************)
(* lxmlbind: declarative binding between typed objects and the nodes of   *)
(* an lxml tree.  The module models lxmlbind/base.py (Base, List, eq_xml) *)
(* over a functional model of the lxml element tree, and the property     *)
(* descriptor of lxmlbind/property.py together with the fixture types of  *)
(* lxmlbind/tests/example.py as far as base.py and the tests use them.    *)
(***************************************************************************)
EXTENDS Integers, Sequences, FiniteSets, TLC

VARIABLES obj,    \* the bound object under test: its class and its lxml tree
          last,   \* the last operation applied to obj and what it returned
          hist,   \* what has happened to obj since it was constructed
          this,   \* eq_xml: the left element
          that,   \* eq_xml: the right element
          res     \* eq_xml / __eq__ / __ne__: the last call and its result

vars == <<obj, last, hist, this, that, res>>

(***************************************************************************)
(* Python values.  None is a value no text can equal: a text is a sequence *)
(* of one-character strings.                                               *)
(***************************************************************************)
None == <<"None">>

RemoveAt(s, i) == SubSeq(s, 1, i - 1) \o SubSeq(s, i + 1, Len(s))

ReplaceAt(s, i, x) == [s EXCEPT ![i] = x]

(***************************************************************************)
(* lxml.etree: an element is a tag, an attribute dictionary (a set of      *)
(* <<key, value>> pairs with distinct keys), a text, a tail and the        *)
(* ordered children.  An element is addressed by the path of child        *)
(* positions that leads to it from the root.                               *)
(***************************************************************************)
Element(tag) ==
    [tag |-> tag, attrib |-> {}, text |-> None, tail |-> None, children |-> <<>>]

RECURSIVE NodeAt(_, _)
NodeAt(element, path) ==
    IF path = <<>> THEN element
    ELSE NodeAt(element.children[Head(path)], Tail(path))

RECURSIVE PutAt(_, _, _)
PutAt(element, path, node) ==
    IF path = <<>> THEN node
    ELSE [element EXCEPT !.children[Head(path)] = PutAt(@, Tail(path), node)]

RECURSIVE DropAt(_, _)
DropAt(element, path) ==
    IF Len(path) = 1
    THEN [element EXCEPT !.children = RemoveAt(@, Head(path))]
    ELSE [element EXCEPT !.children[Head(path)] = DropAt(@, Tail(path))]

RECURSIVE Paths(_)
Paths(element) ==
    {<<>>} \cup UNION {{<<i>> \o p : p \in Paths(element.children[i])} :
                       i \in 1..Len(element.children)}

Size(element) == Cardinality(Paths(element))

find_nothing(parent, head) == 0

find_last(parent, head) ==
    LET hits == {i \in 1..Len(parent.children) : parent.children[i].tag = head}
    IN  IF hits = {} THEN 0 ELSE CHOOSE i \in hits : \A j \in hits : j <= i

\* parent.find(head): the position of the first child tagged head, 0 for None
find(parent, head) ==
    LET hits == {i \in 1..Len(parent.children) : parent.children[i].tag = head}
    IN  IF hits = {} THEN 0 ELSE CHOOSE i \in hits : \A j \in hits : i <= j

CountTag(parent, t) ==
    Cardinality({i \in 1..Len(parent.children) : parent.children[i].tag = t})

(***************************************************************************)
(* str.strip() and the ordering of tags (Python compares str by code      *)
(* point; TagOrder lists the tags of the model in that order).             *)
(***************************************************************************)
IsSpace(c) == c = " "

RECURSIVE lstrip(_)
lstrip(s) == IF s # <<>> /\ IsSpace(Head(s)) THEN lstrip(Tail(s)) ELSE s

RECURSIVE rstrip(_)
rstrip(s) ==
    IF s # <<>> /\ IsSpace(s[Len(s)]) THEN rstrip(SubSeq(s, 1, Len(s) - 1)) ELSE s

strip(s) == rstrip(lstrip(s))

TagOrder ==
    <<"a", "address", "addressBookEntry", "b", "base", "book", "city", "first",
      "last", "list", "memo", "metadata-string", "name", "note", "number",
      "parent", "person", "r", "street", "stub", "title">>

TagRank(t) == CHOOSE i \in 1..Len(TagOrder) : TagOrder[i] = t

\* one step of a stable sort: x goes after every element whose key is <= its own
RECURSIVE InsertByTag(_, _)
InsertByTag(s, x) ==
    IF s = <<>> THEN <<x>>
    ELSE IF TagRank(s[Len(s)].tag) <= TagRank(x.tag) THEN Append(s, x)
    ELSE Append(InsertByTag(SubSeq(s, 1, Len(s) - 1), x), s[Len(s)])

\* sorted(children, key=lambda element: element.tag): Python's sort is stable
RECURSIVE sorted(_)
sorted(s) ==
    IF s = <<>> THEN <<>>
    ELSE InsertByTag(sorted(SubSeq(s, 1, Len(s) - 1)), s[Len(s)])

(***************************************************************************)
(* eq_xml                                                                  *)
(***************************************************************************)
\* ignore_attributes = ignore_attributes or []
IgnoreList(ignore_attributes) ==
    IF ignore_attributes = None THEN <<>> ELSE ignore_attributes

_get_attributes(attributes, ignore_attributes) ==
    {kv \in attributes :
        \A i \in 1..Len(ignore_attributes) : ignore_attributes[i] # kv[1]}

_strip_kept(tail) == tail

_strip(tail) ==
    IF tail = None THEN None
    ELSE IF strip(tail) = <<>> THEN None ELSE strip(tail)

eq_children_unsorted(these, those) == <<these, those>>

\* the two sorted child lists that eq_xml zips
eq_children(these, those) == <<sorted(these), sorted(those)>>

RECURSIVE eq_xml(_, _, _, _)
eq_xml(this_, that_, ignore_attributes, ignore_whitespace) ==
    LET ignored == IgnoreList(ignore_attributes)
        these_attributes == _get_attributes(this_.attrib, ignored)
        those_attributes == _get_attributes(that_.attrib, ignored)
        this_text == IF ignore_whitespace THEN _strip(this_.text) ELSE this_.text
        that_text == IF ignore_whitespace THEN _strip(that_.text) ELSE that_.text
        this_tail == IF ignore_whitespace THEN _strip(this_.tail) ELSE this_.tail
        that_tail == IF ignore_whitespace THEN _strip(that_.tail) ELSE that_.tail
        zipped == eq_children(this_.children, that_.children)
        these_children == zipped[1]
        those_children == zipped[2]
    IN  IF this_.tag # that_.tag THEN FALSE
        ELSE IF these_attributes # those_attributes THEN FALSE
        ELSE IF this_text # that_text THEN FALSE
        ELSE IF this_tail # that_tail THEN FALSE
        ELSE IF Len(these_children) # Len(those_children) THEN FALSE
        ELSE \A i \in 1..Len(these_children) :
                eq_xml(these_children[i], those_children[i],
                       ignored, ignore_whitespace)

(***************************************************************************)
(* The binding types.  base.py declares Base and List; the others are the  *)
(* fixtures of lxmlbind/tests/example.py (Person, Address,                 *)
(* AddressBookEntry, JenkinsMetadataString; of Address only the fields     *)
(* street_number, street_name and city, of JenkinsMetadataString only name *)
(* and parent: the other fields repeat the shape of city and name) and     *)
(* declarations a client of the library may write: Note with an auto       *)
(* property, Memo and Stub that derive from Note and declare an auto       *)
(* property on the same path, and Book = @of(AddressBookEntry) List.       *)
(***************************************************************************)
Classes ==
    {"Base", "List", "Person", "Address", "AddressBookEntry",
     "JenkinsMetadataString", "Note", "Memo", "Stub", "Book"}

\* inspect.getmro(cls), without object
getmro(cls) ==
    CASE cls = "Base" -> <<"Base">>
      [] cls = "List" -> <<"List", "Base">>
      [] cls = "Book" -> <<"Book", "List", "Base">>
      [] cls = "Memo" -> <<"Memo", "Note", "Base">>
      [] cls = "Stub" -> <<"Stub", "Note", "Base">>
      [] OTHER -> <<cls, "Base">>

IsList(cls) == \E i \in 1..Len(getmro(cls)) : getmro(cls)[i] = "List"

\* cls.__name__[0].lower() + cls.__name__[1:]
LowerFirst(name) ==
    CASE name = "Base" -> "base"
      [] name = "List" -> "list"
      [] name = "Person" -> "person"
      [] name = "Address" -> "address"
      [] name = "AddressBookEntry" -> "addressBookEntry"
      [] name = "JenkinsMetadataString" -> "jenkinsMetadataString"
      [] name = "Note" -> "note"
      [] name = "Memo" -> "memo"
      [] name = "Stub" -> "stub"
      [] name = "Book" -> "book"

\* Base.tag, or the constant a @tag(name) decorator put in its place
tag(cls) ==
    CASE cls = "JenkinsMetadataString" -> "metadata-string"
      [] OTHER -> LowerFirst(cls)

\* List.of, or the type an @of(child_type) decorator put in its place
of(cls) == IF cls = "Book" THEN "AddressBookEntry" ELSE "Base"

NoAttributes == {}

MetadataTreeAttributes ==
    {<<"class", "metadata-tree">>, <<"reference", "../../..">>}

\* Property(path, get_func, set_func, auto, default, attributes)
Property(name, tags, kind, target, auto, default, attributes) ==
    [name |-> name, tags |-> tags, kind |-> kind, target |-> target,
     auto |-> auto, default |-> default, attributes |-> attributes]

\* a Python value handed to or returned by a property
PyNone == [kind |-> "None", text |-> None, cls |-> "", element |-> Element("")]

PyText(s) == [kind |-> "text", text |-> s, cls |-> "", element |-> Element("")]

PyObject(cls, element) ==
    [kind |-> "object", text |-> None, cls |-> cls, element |-> element]

\* Base.property: path = cls.tag(), get_func = cls, set_func = set_child, auto
BaseProperty(name, cls) ==
    Property(name, <<tag(cls)>>, "child", cls, TRUE, PyNone, NoAttributes)

\* class_.__dict__: the Property members a class declares itself
Members(class_) ==
    CASE class_ = "Person" ->
           {Property("first", <<"first">>, "text", "", FALSE, PyNone, NoAttributes),
            Property("last", <<"last">>, "text", "", FALSE, PyNone, NoAttributes)}
      [] class_ = "Address" ->
           {Property("street_number", <<"street", "number">>, "text", "", FALSE,
                     PyNone, NoAttributes),
            Property("street_name", <<"street", "name">>, "text", "", FALSE,
                     PyNone, NoAttributes),
            Property("city", <<"city">>, "text", "", FALSE, PyNone, NoAttributes)}
      [] class_ = "AddressBookEntry" ->
           {BaseProperty("person", "Person"), BaseProperty("address", "Address")}
      [] class_ = "JenkinsMetadataString" ->
           {Property("name", <<"name">>, "text", "", FALSE, PyNone, NoAttributes),
            Property("parent", <<"parent">>, "marker", "", FALSE, PyNone,
                     MetadataTreeAttributes)}
      [] class_ = "Note" ->
           {Property("title", <<"title">>, "text", "", TRUE, PyText(<<"v">>),
                     NoAttributes)}
      [] class_ = "Memo" ->
           {Property("heading", <<"title">>, "text", "", TRUE, PyText(<<"w">>),
                     NoAttributes)}
      [] class_ = "Stub" ->
           {Property("blank", <<"title">>, "text", "", TRUE, PyNone, NoAttributes)}
      [] OTHER -> {}

\* every Property an instance of cls answers to
AllMembers(cls) == UNION {Members(getmro(cls)[i]) : i \in 1..Len(getmro(cls))}

\* the orders in which class_.__dict__.values() may yield the members
SeqsOf(S) ==
    {s \in [1..Cardinality(S) -> S] : \A i, j \in 1..Cardinality(S) :
                                          i # j => s[i] # s[j]}

\* a dict yields its values in an order the program does not control: one
\* order or its reverse, for each class with two auto members
DictOrders ==
    [{c \in Classes : Cardinality({m \in Members(c) : m.auto}) > 1} -> BOOLEAN]

\* class_.__dict__.values(), restricted to the members the loop does not skip
AutoValues(class_, ord) ==
    LET auto == {m \in Members(class_) : m.auto}
        up == CHOOSE s \in SeqsOf(auto) : TRUE
    IN  IF class_ \in DOMAIN ord /\ ~ord[class_]
        THEN [i \in 1..Len(up) |-> up[Len(up) + 1 - i]]
        ELSE up

(***************************************************************************)
(* Base.search                                                             *)
(***************************************************************************)
NoCallback == [given |-> FALSE, attrs |-> {}]

Callback(attrs) == [given |-> TRUE, attrs |-> attrs]

\* set_attributes(child, self): the callback stamps its attributes on child
Call(set_attributes, child) ==
    [child EXCEPT !.attrib =
        {kv \in @ : \A st \in set_attributes.attrs : st[1] # kv[1]}
        \cup set_attributes.attrs]

NotFound(parent) ==
    [element |-> parent, found |-> FALSE, leaf |-> <<>>, created |-> {},
     stamped |-> <<>>]

\* what the recursive call of search is handed as set_attributes: nothing
RecursiveCallback(set_attributes) == NoCallback

CreatesAlways(create) == TRUE

\* `if create:` for a level without a matching child
Creates(create) == create

RECURSIVE search(_, _, _, _)
search(tags, parent, create, set_attributes) ==
    LET head == Head(tags)
        tail == Tail(tags)
        at == find(parent, head)
        isNew == at = 0
        k == IF isNew THEN Len(parent.children) + 1 ELSE at
        stamp == isNew /\ set_attributes.given /\ tail = <<>>
        subElement == IF isNew THEN Element(head) ELSE parent.children[at]
        child == IF stamp THEN Call(set_attributes, subElement) ELSE subElement
        rest == IF tail # <<>>
                THEN search(tail, child, create, RecursiveCallback(set_attributes))
                ELSE [element |-> child, found |-> TRUE, leaf |-> <<>>,
                      created |-> {}, stamped |-> <<>>]
    IN  IF isNew /\ ~Creates(create) THEN NotFound(parent)
        ELSE IF ~rest.found THEN NotFound(parent)
        ELSE [element |-> [parent EXCEPT !.children =
                              IF isNew THEN Append(@, rest.element)
                              ELSE ReplaceAt(@, k, rest.element)],
              found |-> TRUE,
              leaf |-> <<k>> \o rest.leaf,
              created |-> (IF isNew THEN {<<k>>} ELSE {})
                          \cup {<<k>> \o p : p \in rest.created},
              stamped |-> (IF stamp THEN <<<<k>>>> ELSE <<>>)
                          \o [i \in 1..Len(rest.stamped) |-> <<k>> \o rest.stamped[i]]]

(***************************************************************************)
(* lxmlbind.property: the Property descriptor, its conversions and         *)
(* set_child, as base.py and the tests use them.                           *)
(***************************************************************************)
\* get_func of a scalar property: the text of the leaf
get_text(leaf) == IF leaf.text = None THEN PyNone ELSE PyText(leaf.text)

\* set_func of a scalar property: the text of the leaf becomes the value
set_text(leaf, value) ==
    [leaf EXCEPT !.text = IF value.kind = "None" THEN None ELSE value.text]

\* set_func of Base.property: the value's element takes the place of the leaf
\* and becomes the last child; a None value leaves the leaf search made
set_child(parent, at, value) ==
    IF value.kind = "None" THEN parent
    ELSE [parent EXCEPT !.children = Append(RemoveAt(@, at), value.element)]

RECURSIVE Property__get__(_, _, _)
RECURSIVE Property__set__(_, _, _)
RECURSIVE _set_default_properties(_, _, _)
RECURSIVE __init__(_, _, _, _)

\* get_func of Base.property: cls(leaf, parent=instance), `made`
get_child(member, element, path, made) ==
    IF made.raised
    THEN [raised |-> TRUE, value |-> PyNone, element |-> element]
    ELSE [raised |-> FALSE, value |-> PyObject(member.target, made.element),
          element |-> PutAt(element, path, made.element)]

\* Property.__get__(instance, owner) on an instance whose element is `element`
Property__get__(member, element, ord) ==
    LET hit == search(member.tags, element, FALSE, NoCallback)
        leaf == NodeAt(hit.element, hit.leaf)
    IN  IF ~hit.found
        THEN [raised |-> FALSE, value |-> PyNone, element |-> hit.element]
        ELSE IF member.kind = "text"
        THEN [raised |-> FALSE, value |-> get_text(leaf), element |-> hit.element]
        ELSE IF member.kind = "marker"
        THEN [raised |-> FALSE, value |-> PyNone, element |-> hit.element]
        ELSE get_child(member, hit.element, hit.leaf,
                       __init__(member.target, TRUE, leaf, ord))

\* Property.__set__(instance, value)
Property__set__(member, element, value) ==
    LET hit == search(member.tags, element, TRUE,
                      IF member.attributes = NoAttributes THEN NoCallback
                      ELSE Callback(member.attributes))
        leaf == NodeAt(hit.element, hit.leaf)
        up == SubSeq(hit.leaf, 1, Len(hit.leaf) - 1)
    IN  IF member.kind = "text"
        THEN PutAt(hit.element, hit.leaf, set_text(leaf, value))
        ELSE IF member.kind = "marker"
        THEN hit.element
        ELSE PutAt(hit.element, up,
                   set_child(NodeAt(hit.element, up), hit.leaf[Len(hit.leaf)], value))

\* whether the loop of _set_default_properties writes the default of a member
\* that read `got`
WritesDefaultAlways(got) == TRUE

WritesDefault(got) == got.value.kind = "None"

\* the members the two loops of _set_default_properties visit, in order
RECURSIVE Visited(_, _)
Visited(mro, ord) ==
    IF mro = <<>> THEN <<>>
    ELSE [i \in 1..Len(AutoValues(Head(mro), ord)) |->
             [class_ |-> Head(mro), member |-> AutoValues(Head(mro), ord)[i]]]
         \o Visited(Tail(mro), ord)

\* the body of the loop for one member that read `got`
DefaultOf(class_, member, element, got) ==
    LET wrote == WritesDefault(got)
        after == IF wrote THEN Property__set__(member, got.element, member.default)
                 ELSE got.element
    IN  [raised |-> got.raised,
         element |-> after,
         entry |-> [class_ |-> class_, member |-> member,
                    absent |-> got.value.kind = "None", wrote |-> wrote,
                    before |-> element, after |-> after]]

RECURSIVE DefaultsFrom(_, _, _, _)
RECURSIVE DefaultsNext(_, _, _, _)
DefaultsFrom(visit, element, log, ord) ==
    IF visit = <<>> THEN [raised |-> FALSE, element |-> element, log |-> log]
    ELSE DefaultsNext(visit, log, ord,
                      DefaultOf(Head(visit).class_, Head(visit).member, element,
                                Property__get__(Head(visit).member, element, ord)))

DefaultsNext(visit, log, ord, done) ==
    IF done.raised
    THEN [raised |-> TRUE, element |-> done.entry.before, log |-> log]
    ELSE DefaultsFrom(Tail(visit), done.element, Append(log, done.entry), ord)

_set_default_properties(cls, element, ord) ==
    DefaultsFrom(Visited(getmro(cls), ord), element, <<>>, ord)

_new_default_element(cls) == Element(tag(cls))

\* the test of the elif of Base.__init__
TagMismatchIgnored(cls, element) == FALSE

TagMismatch(cls, element) == element.tag # tag(cls)

\* Base.__init__(element): `given` is FALSE for element=None
\* the object __init__ leaves once self._set_default_properties() returned `set`
Initialized(set) ==
    [raised |-> set.raised, error |-> IF set.raised THEN "TagMismatch" ELSE "",
     element |-> set.element, log |-> set.log]

__init__(cls, given, element, ord) ==
    IF given /\ TagMismatch(cls, element)
    THEN [raised |-> TRUE, error |-> "TagMismatch", element |-> element,
          log |-> <<>>]
    ELSE Initialized(_set_default_properties(
             cls, IF given THEN element ELSE _new_default_element(cls), ord))

(***************************************************************************)
(* Base.to_xml, __str__, __hash__, __eq__, __ne__                          *)
(***************************************************************************)
Token(kind, tag_, attrib, text) ==
    [kind |-> kind, tag |-> tag_, attrib |-> attrib, text |-> text]

RECURSIVE tostring(_)
RECURSIVE tostringAll(_)
\* etree.tostring(element): the element, its content and its tail
tostring(element) ==
    (IF element.text = None /\ element.children = <<>>
     THEN <<Token("empty", element.tag, element.attrib, None)>>
     ELSE <<Token("open", element.tag, element.attrib, None)>>
          \o (IF element.text = None THEN <<>>
              ELSE <<Token("text", "", {}, element.text)>>)
          \o tostringAll(element.children)
          \o <<Token("close", element.tag, {}, None)>>)
    \o (IF element.tail = None THEN <<>> ELSE <<Token("text", "", {}, element.tail)>>)

tostringAll(children) ==
    IF children = <<>> THEN <<>>
    ELSE tostring(Head(children)) \o tostringAll(Tail(children))

to_xml(element) == tostring(element)

\* other._element of an operand that is no Base has no value: AttributeError
Base__eq__(element, other) ==
    IF other.kind = "None" THEN [raised |-> FALSE, value |-> FALSE]
    ELSE IF other.kind # "object" THEN [raised |-> TRUE, value |-> FALSE]
    ELSE [raised |-> FALSE, value |-> eq_xml(element, other.element, None, TRUE)]

Base__ne__(element, other) ==
    [raised |-> Base__eq__(element, other).raised,
     value |-> ~Base__eq__(element, other).value]

(***************************************************************************)
(* List.  A value handed to append or __setitem__ wraps an element that   *)
(* is detached (at = 0) or is already the child at position `at` of the   *)
(* list (a wrapper that __getitem__ returned): lxml moves an element that *)
(* is appended or assigned while it has a parent.                          *)
(***************************************************************************)
Detached(cls, element) == [cls |-> cls, element |-> element, at |-> 0]

Attached(cls, element, at) == [cls |-> cls, element |-> element, at |-> at]

\* the 1-based position a Python index names in a list of n, 0 if none
Position(key, n) ==
    LET k == IF key < 0 THEN key + n ELSE key
    IN  IF k >= 0 /\ k < n THEN k + 1 ELSE 0

List_append(element, value) ==
    [element EXCEPT !.children =
        IF value.at = 0 THEN Append(@, value.element)
        ELSE Append(RemoveAt(@, value.at), @[value.at])]

List__setitem__(element, key, value) ==
    LET at == Position(key, Len(element.children))
    IN  IF at = 0 THEN [raised |-> TRUE, element |-> element]
        ELSE [raised |-> FALSE,
              element |-> [element EXCEPT !.children =
                  IF value.at = 0 THEN ReplaceAt(@, at, value.element)
                  ELSE IF value.at = at THEN @
                  ELSE RemoveAt(ReplaceAt(@, at, @[value.at]), value.at)]]

List__delitem__first(element, key) ==
    IF element.children = <<>> THEN [raised |-> TRUE, element |-> element]
    ELSE [raised |-> FALSE, element |-> [element EXCEPT !.children = Tail(@)]]

List__delitem__(element, key) ==
    LET at == Position(key, Len(element.children))
    IN  IF at = 0 THEN [raised |-> TRUE, element |-> element]
        ELSE [raised |-> FALSE,
              element |-> [element EXCEPT !.children = RemoveAt(@, at)]]

\* self._of()(child): the element type constructed on the child at `at`
Item(cls, element, at, made) ==
    [raised |-> made.raised,
     error |-> made.error,
     item |-> PyObject(of(cls), made.element),
     element |-> IF made.raised THEN element
                 ELSE [element EXCEPT !.children[at] = made.element]]

ItemAt(cls, element, at, ord) ==
    Item(cls, element, at, __init__(of(cls), TRUE, element.children[at], ord))

List__getitem__(cls, element, key, ord) ==
    LET at == Position(key, Len(element.children))
    IN  IF at = 0
        THEN [raised |-> TRUE, error |-> "IndexError", item |-> PyNone,
              element |-> element]
        ELSE ItemAt(cls, element, at, ord)

\* the iterator of __iter__ run to its end: the items it yields, up to the
\* first child the element type refuses
RECURSIVE IterFrom(_, _, _, _, _)
RECURSIVE IterNext(_, _, _, _, _)
IterFrom(cls, element, at, items, ord) ==
    IF at > Len(element.children)
    THEN [raised |-> FALSE, error |-> "", items |-> items, element |-> element]
    ELSE IterNext(cls, at, items, ord, ItemAt(cls, element, at, ord))

IterNext(cls, at, items, ord, it) ==
    IF it.raised
    THEN [raised |-> TRUE, error |-> it.error, items |-> items,
          element |-> it.element]
    ELSE IterFrom(cls, it.element, at + 1, Append(items, it.item), ord)

List__iter__(cls, element, ord) == IterFrom(cls, element, 1, <<>>, ord)

List__len__(element) == Len(element.children)

\* Property.__delete__(instance)
Property__delete__(member, cls, element) ==
    LET hit == search(member.tags, element, FALSE, NoCallback)
    IN  IF ~hit.found
        THEN [raised |-> TRUE,
              error |-> [kind |-> "AttributeError", class_ |-> cls,
                         path |-> member.tags],
              element |-> element]
        ELSE [raised |-> FALSE,
              error |-> [kind |-> "", class_ |-> "", path |-> <<>>],
              element |-> DropAt(hit.element, hit.leaf)]

(***************************************************************************)
(* The inputs of the model.                                                *)
(***************************************************************************)
MaxNodes == 5    \* no operation grows the tree beyond this many elements

MaxLen == 3      \* no list operation grows a list beyond this many children

Leaf(tag_, text) == [Element(tag_) EXCEPT !.text = text]

Tree(tag_, children) == [Element(tag_) EXCEPT !.children = children]

\* the documents handed to from_xml, as etree.XML parses them
Documents ==
    {Tree("person", <<Leaf("first", <<"v">>)>>),
     Tree("person", <<Leaf("first", <<"v">>), Leaf("first", <<"w">>)>>),
     Tree("address", <<Tree("street", <<Leaf("number", <<"v">>)>>)>>),
     Tree("address", <<Element("street"),
                       Tree("street", <<Leaf("number", <<"v">>)>>)>>),
     Tree("addressBookEntry", <<Tree("person", <<Leaf("first", <<"v">>)>>)>>),
     Tree("book", <<Element("addressBookEntry"), Element("person")>>),
     Tree("list", <<Element("base"), Leaf("base", <<"v">>)>>),
     Tree("metadata-string", <<Element("parent")>>),
     Tree("note", <<Leaf("title", <<"w">>)>>),
     Tree("note", <<Element("title")>>),
     Tree("memo", <<>>),
     Tree("stub", <<Element("title")>>)}

\* the texts handed to from_xml
XmlTexts == {tostring(d) : d \in Documents}

\* etree.XML(bytes(xml)): the element the text describes.  Text after an
\* opening tag is the text of the element; text after an element is its tail.
RECURSIVE ParseOne(_)
RECURSIVE ParseChildren(_, _)
ParseOne(toks) ==
    LET t == Head(toks)
        afterOpen == Tail(toks)
        hasText == /\ t.kind = "open" /\ afterOpen # <<>>
                   /\ Head(afterOpen).kind = "text"
        inner == IF t.kind = "open"
                 THEN ParseChildren(IF hasText THEN Tail(afterOpen) ELSE afterOpen,
                                    <<>>)
                 ELSE [children |-> <<>>, rest |-> afterOpen]
        hasTail == inner.rest # <<>> /\ Head(inner.rest).kind = "text"
    IN  [element |-> [tag |-> t.tag, attrib |-> t.attrib,
                      text |-> IF hasText THEN Head(afterOpen).text ELSE None,
                      tail |-> IF hasTail THEN Head(inner.rest).text ELSE None,
                      children |-> inner.children],
         rest |-> IF hasTail THEN Tail(inner.rest) ELSE inner.rest]

ParseChildren(toks, children) ==
    IF Head(toks).kind = "close"
    THEN [children |-> children, rest |-> Tail(toks)]
    ELSE ParseChildren(ParseOne(toks).rest, Append(children, ParseOne(toks).element))

XML(xml) == ParseOne(xml).element

Texts == {PyNone, PyText(<<"v">>)}

\* the values a property of the member's kind is assigned
ValuesFor(member) ==
    IF member.kind = "child"
    THEN {PyNone,
          PyObject(member.target, Element(tag(member.target))),
          PyObject(member.target,
                   Tree(tag(member.target), <<Leaf("first", <<"v">>)>>))}
    ELSE Texts

\* the tag sequences search is called with on an instance of cls: the paths
\* of its properties and their prefixes
SearchTags(cls) ==
    UNION {{SubSeq(m.tags, 1, n) : n \in 1..Len(m.tags)} : m \in AllMembers(cls)}

Callbacks == {NoCallback, Callback(MetadataTreeAttributes)}

Keys == -1..MaxLen

\* the values a list is handed: new objects, and wrappers of its own children
ListValues(cls, element) ==
    {Detached(of(cls), Element(tag(of(cls)))),
     Detached(of(cls), Leaf(tag(of(cls)), <<"v">>)),
     Detached("Person", Element("person"))}
    \cup {Attached("Base", element.children[at], at) :
            at \in 1..Len(element.children)}

\* the operands of == and !=
Others ==
    {PyNone, PyText(<<"v">>)}
    \cup {PyObject("Base", d) : d \in {d \in Documents : d.tag \in {"person", "note"}}}

(***************************************************************************)
(* The state machine of one bound object.                                  *)
(***************************************************************************)
NoObject == [cls |-> "", element |-> Element("")]

NoCall == [op |-> ""]

\* fresh: constructed without an element, and only assigned to since;
\* emptied: a list constructed without children, and only appended to since,
\* `appends` times, each time a detached value if `detached`
NoHist == [fresh |-> FALSE, emptied |-> FALSE, appends |-> 0, detached |-> TRUE]

EqIdle == this = Element("") /\ that = Element("") /\ res = NoCall

Init == obj = NoObject /\ last = NoCall /\ hist = NoHist /\ EqIdle

HistOf(made, given) ==
    [fresh |-> ~given,
     emptied |-> IsList(made.cls) /\ made.element.children = <<>>,
     appends |-> 0, detached |-> TRUE]

\* one object is under test: it is constructed once
Constructed(op, cls, given, element, made) ==
    /\ obj = NoObject
    /\ obj' = IF made.raised THEN NoObject ELSE [cls |-> cls, element |-> made.element]
    /\ last' = [op |-> op, cls |-> cls, given |-> given, before |-> element,
                raised |-> made.raised, error |-> made.error, log |-> made.log]
    /\ hist' = IF made.raised THEN NoHist ELSE HistOf(obj', given)
    /\ UNCHANGED <<this, that, res>>

\* cls()
New(cls, ord) ==
    Constructed("__init__", cls, FALSE, Element(""),
                __init__(cls, FALSE, Element(""), ord))

\* cls(element)
Wrap(cls, element, ord) ==
    Constructed("__init__", cls, TRUE, element, __init__(cls, TRUE, element, ord))

\* cls.from_xml(xml)
from_xml(cls, xml, ord) ==
    Constructed("from_xml", cls, TRUE, XML(xml), __init__(cls, TRUE, XML(xml), ord))

Bound == obj # NoObject

Stale == NoHist

\* obj.search(tags, create=create, set_attributes=set_attributes)
Search(tags, create, set_attributes) ==
    LET hit == search(tags, obj.element, create, set_attributes)
    IN  /\ Bound
        /\ Size(hit.element) <= MaxNodes
        /\ obj' = [obj EXCEPT !.element = hit.element]
        /\ last' = [op |-> "search", tags |-> tags, create |-> create,
                    callback |-> set_attributes.given, before |-> obj.element,
                    found |-> hit.found, leaf |-> hit.leaf,
                    created |-> hit.created, stamped |-> hit.stamped]
        /\ hist' = Stale
        /\ UNCHANGED <<this, that, res>>

\* obj.<member>
Get(member, ord) ==
    \E got \in {Property__get__(member, obj.element, ord)} :
        /\ Bound
        /\ obj' = [obj EXCEPT !.element = got.element]
        /\ last' = [op |-> "__get__", member |-> member, before |-> obj.element,
                    raised |-> got.raised, value |-> got.value]
        /\ hist' = Stale
        /\ UNCHANGED <<this, that, res>>

\* obj.<member> = value
Set(member, value) ==
    LET after == Property__set__(member, obj.element, value)
    IN  /\ Bound
        /\ Size(after) <= MaxNodes
        /\ obj' = [obj EXCEPT !.element = after]
        /\ last' = [op |-> "__set__", member |-> member, value |-> value,
                    before |-> obj.element]
        /\ hist' = [NoHist EXCEPT !.fresh = hist.fresh]
        /\ UNCHANGED <<this, that, res>>

\* del obj.<member>
Delete(member) ==
    LET del == Property__delete__(member, obj.cls, obj.element)
    IN  /\ Bound
        /\ obj' = [obj EXCEPT !.element = del.element]
        /\ last' = [op |-> "__delete__", member |-> member, before |-> obj.element,
                    raised |-> del.raised, error |-> del.error]
        /\ hist' = Stale
        /\ UNCHANGED <<this, that, res>>

\* obj.append(value)
ListAppend(value) ==
    LET after == List_append(obj.element, value)
    IN  /\ Bound /\ IsList(obj.cls)
        /\ Len(after.children) <= MaxLen
        /\ Size(after) <= MaxNodes
        /\ obj' = [obj EXCEPT !.element = after]
        /\ last' = [op |-> "append", value |-> value, before |-> obj.element,
                    valueParent |-> "self"]
        /\ hist' = IF hist.emptied /\ hist.appends < MaxLen
                    THEN [hist EXCEPT !.fresh = FALSE, !.appends = @ + 1,
                                      !.detached = @ /\ value.at = 0]
                    ELSE NoHist
        /\ UNCHANGED <<this, that, res>>

\* obj[key] = value
ListSetItem(key, value) ==
    LET set == List__setitem__(obj.element, key, value)
    IN  /\ Bound /\ IsList(obj.cls)
        /\ Size(set.element) <= MaxNodes
        /\ obj' = [obj EXCEPT !.element = set.element]
        /\ last' = [op |-> "__setitem__", key |-> key, value |-> value,
                    before |-> obj.element, raised |-> set.raised,
                    valueParent |-> IF set.raised THEN "" ELSE "self"]
        /\ hist' = Stale
        /\ UNCHANGED <<this, that, res>>

\* obj[key]
ListGetItem(key, ord) ==
    \E got \in {List__getitem__(obj.cls, obj.element, key, ord)} :
        /\ Bound /\ IsList(obj.cls)
        /\ Size(got.element) <= MaxNodes
        /\ obj' = [obj EXCEPT !.element = got.element]
        /\ last' = [op |-> "__getitem__", key |-> key, before |-> obj.element,
                    raised |-> got.raised, error |-> got.error, item |-> got.item,
                    itemParent |-> IF got.raised THEN "" ELSE "self"]
        /\ hist' = Stale
        /\ UNCHANGED <<this, that, res>>

\* del obj[key]
ListDelItem(key) ==
    LET del == List__delitem__(obj.element, key)
    IN  /\ Bound /\ IsList(obj.cls)
        /\ obj' = [obj EXCEPT !.element = del.element]
        /\ last' = [op |-> "__delitem__", key |-> key, before |-> obj.element,
                    raised |-> del.raised]
        /\ hist' = Stale
        /\ UNCHANGED <<this, that, res>>

\* list(obj)
ListIter(ord) ==
    \E it \in {List__iter__(obj.cls, obj.element, ord)} :
        /\ Bound /\ IsList(obj.cls)
        /\ Size(it.element) <= MaxNodes
        /\ obj' = [obj EXCEPT !.element = it.element]
        /\ last' = [op |-> "__iter__", before |-> obj.element, raised |-> it.raised,
                    error |-> it.error, items |-> it.items]
        /\ hist' = Stale
        /\ UNCHANGED <<this, that, res>>

\* len(obj)
ListLen ==
    /\ Bound /\ IsList(obj.cls)
    /\ last' = [op |-> "__len__", before |-> obj.element,
                result |-> List__len__(obj.element)]
    /\ UNCHANGED <<obj, hist, this, that, res>>

\* obj.to_xml() and str(obj)
ToXml(op) ==
    /\ Bound
    /\ last' = [op |-> op, before |-> obj.element, result |-> to_xml(obj.element)]
    /\ UNCHANGED <<obj, hist, this, that, res>>

\* hash(obj): the hash of the element, which is the element's identity
Hash ==
    /\ Bound
    /\ last' = [op |-> "__hash__", before |-> obj.element, result |-> <<>>]
    /\ UNCHANGED <<obj, hist, this, that, res>>

\* obj == other and obj != other
Compare(op, other) ==
    LET r == IF op = "__eq__" THEN Base__eq__(obj.element, other)
             ELSE Base__ne__(obj.element, other)
    IN  /\ Bound
        /\ last' = [op |-> op, before |-> obj.element, other |-> other,
                    raised |-> r.raised, value |-> r.value]
        /\ UNCHANGED <<obj, hist, this, that, res>>

Next ==
    \/ \E cls \in Classes, ord \in DictOrders : New(cls, ord)
    \/ \E cls \in Classes, element \in Documents, ord \in DictOrders :
           Wrap(cls, element, ord)
    \/ \E cls \in Classes, xml \in XmlTexts, ord \in DictOrders :
           from_xml(cls, xml, ord)
    \/ \E tags \in SearchTags(obj.cls), create \in BOOLEAN, cb \in Callbacks :
           Search(tags, create, cb)
    \/ \E member \in AllMembers(obj.cls), ord \in DictOrders : Get(member, ord)
    \/ \E member \in AllMembers(obj.cls) : \E value \in ValuesFor(member) :
           Set(member, value)
    \/ \E member \in AllMembers(obj.cls) : Delete(member)
    \/ \E value \in ListValues(obj.cls, obj.element) : ListAppend(value)
    \/ \E key \in Keys : \E value \in ListValues(obj.cls, obj.element) :
           ListSetItem(key, value)
    \/ \E key \in Keys, ord \in DictOrders : ListGetItem(key, ord)
    \/ \E key \in Keys : ListDelItem(key)
    \/ \E ord \in DictOrders : ListIter(ord)
    \/ ListLen
    \/ \E op \in {"to_xml", "__str__"} : ToXml(op)
    \/ Hash
    \/ \E op \in {"__eq__", "__ne__"}, other \in Others : Compare(op, other)

Spec == Init /\ [][Next]_vars

(***************************************************************************)
(* eq_xml, __eq__ and __ne__ applied to two elements drawn from a bounded *)
(* set: a few shapes over the tags a, b, r, each bare or with one element *)
(* given a text, a tail or an attribute.                                   *)
(***************************************************************************)
EqShapes ==
    {Tree("r", <<>>),
     Tree("r", <<Element("a")>>),
     Tree("r", <<Element("a"), Element("b")>>),
     Tree("r", <<Element("b"), Element("a")>>),
     Tree("r", <<Element("a"), Element("b"), Element("a")>>),
     Tree("r", <<Element("a"), Element("a"), Element("b")>>),
     Tree("r", <<Tree("a", <<Element("b"), Element("a")>>)>>),
     Tree("r", <<Tree("a", <<Element("a"), Element("b")>>)>>)}

Decorations ==
    {[field |-> "text", text |-> <<" ">>, attrib |-> {}],
     [field |-> "text", text |-> <<"x">>, attrib |-> {}],
     [field |-> "text", text |-> <<" ", "x", " ">>, attrib |-> {}],
     [field |-> "tail", text |-> <<" ">>, attrib |-> {}],
     [field |-> "attrib", text |-> None, attrib |-> {<<"k", "1">>}],
     [field |-> "attrib", text |-> None, attrib |-> {<<"j", "1">>}]}

Decorate(element, d) ==
    CASE d.field = "text" -> [element EXCEPT !.text = d.text]
      [] d.field = "tail" -> [element EXCEPT !.tail = d.text]
      [] d.field = "attrib" -> [element EXCEPT !.attrib = d.attrib]

EqElements ==
    EqShapes \cup {PutAt(e, p, Decorate(NodeAt(e, p), d)) :
                     <<e, p>> \in UNION {{<<e, p>> : p \in Paths(e)} : e \in EqShapes},
                     d \in Decorations}

IgnoreArguments == {None, <<"k">>}

EqOthers == {"None", "str", "Base"}

EqOther(kind) ==
    CASE kind = "None" -> PyNone
      [] kind = "str" -> PyText(<<"v">>)
      [] kind = "Base" -> PyObject("Base", that)

ObjIdle == obj = NoObject /\ last = NoCall /\ hist = NoHist

InitEq == this \in EqElements /\ that \in EqElements /\ res = NoCall /\ ObjIdle

\* eq_xml(this, that, ignore_attributes, ignore_whitespace)
EqXml(ignore_attributes, ignore_whitespace) ==
    /\ res = NoCall
    /\ res' = [op |-> "eq_xml", ignore_attributes |-> ignore_attributes,
               ignore_whitespace |-> ignore_whitespace,
               value |-> eq_xml(this, that, ignore_attributes, ignore_whitespace)]
    /\ UNCHANGED <<obj, last, hist, this, that>>

\* Base(this) == other
Eq(kind) ==
    /\ res = NoCall
    /\ res' = [op |-> "__eq__", other |-> kind,
               raised |-> Base__eq__(this, EqOther(kind)).raised,
               value |-> Base__eq__(this, EqOther(kind)).value]
    /\ UNCHANGED <<obj, last, hist, this, that>>

\* Base(this) != other
Ne(kind) ==
    /\ res = NoCall
    /\ res' = [op |-> "__ne__", other |-> kind,
               raised |-> Base__ne__(this, EqOther(kind)).raised,
               value |-> Base__ne__(this, EqOther(kind)).value]
    /\ UNCHANGED <<obj, last, hist, this, that>>

NextEq ==
    \/ \E ign \in IgnoreArguments, ws \in BOOLEAN : EqXml(ign, ws)
    \/ \E kind \in EqOthers : Eq(kind)
    \/ \E kind \in EqOthers : Ne(kind)

SpecEq == InitEq /\ [][NextEq]_vars

(***************************************************************************)
(* What the comparison is meant to compute, stated without eq_xml.         *)
(***************************************************************************)
\* a text without its leading and trailing blanks, None when nothing is left
Significant(s) ==
    IF s = None THEN None
    ELSE LET inked == {i \in 1..Len(s) : s[i] # " "}
         IN  IF inked = {} THEN None
             ELSE SubSeq(s, CHOOSE i \in inked : \A j \in inked : i <= j,
                            CHOOSE i \in inked : \A j \in inked : j <= i)

\* the children in the order of their tags, siblings of one tag in their own order
OrderedByTag(s) ==
    LET before(j, i) ==
            \/ TagRank(s[j].tag) < TagRank(s[i].tag)
            \/ TagRank(s[j].tag) = TagRank(s[i].tag) /\ j < i
        place(i) == 1 + Cardinality({j \in 1..Len(s) : before(j, i)})
    IN  [p \in 1..Len(s) |-> s[CHOOSE i \in 1..Len(s) : place(i) = p]]

\* the two trees are the same but for blanks around their texts and tails
RECURSIVE SameButWhitespace(_, _)
SameButWhitespace(e1, e2) ==
    /\ e1.tag = e2.tag
    /\ e1.attrib = e2.attrib
    /\ Significant(e1.text) = Significant(e2.text)
    /\ Significant(e1.tail) = Significant(e2.tail)
    /\ Len(e1.children) = Len(e2.children)
    /\ \A i \in 1..Len(e1.children) :
          SameButWhitespace(e1.children[i], e2.children[i])

LocalMismatch(e1, e2) ==
    \/ e1.tag # e2.tag
    \/ e1.attrib # e2.attrib
    \/ Len(e1.children) # Len(e2.children)

\* some pair of elements the comparison matches differs in tag, attributes or
\* number of children
RECURSIVE MismatchSomewhere(_, _)
MismatchSomewhere(e1, e2) ==
    \/ LocalMismatch(e1, e2)
    \/ \E i \in 1..Len(e1.children) :
          MismatchSomewhere(OrderedByTag(e1.children)[i],
                            OrderedByTag(e2.children)[i])

\* the comparison with one list of ignored attributes and one whitespace flag
\* at every depth
RECURSIVE EqualAtEveryDepth(_, _, _, _)
EqualAtEveryDepth(e1, e2, ignored, ws) ==
    LET kept(a) == {kv \in a : \A i \in 1..Len(ignored) : ignored[i] # kv[1]}
        norm(s) == IF ws THEN Significant(s) ELSE s
    IN  /\ e1.tag = e2.tag
        /\ kept(e1.attrib) = kept(e2.attrib)
        /\ norm(e1.text) = norm(e2.text)
        /\ norm(e1.tail) = norm(e2.tail)
        /\ Len(e1.children) = Len(e2.children)
        /\ \A i \in 1..Len(e1.children) :
              EqualAtEveryDepth(OrderedByTag(e1.children)[i],
                                OrderedByTag(e2.children)[i], ignored, ws)

\* the orders of s that keep the siblings of one tag in their own order
StableOrders(s) ==
    {p \in SeqsOf(1..Len(s)) :
        \A i, j \in 1..Len(s) :
            (i < j /\ s[p[i]].tag = s[p[j]].tag) => p[i] < p[j]}

\* the trees that differ from e in such an order of the children of one element
Reordered(e) ==
    {PutAt(e, path, [NodeAt(e, path) EXCEPT !.children =
                        [i \in 1..Len(@) |-> @[p[i]]]]) :
        <<path, p>> \in UNION {{<<path, p>> :
                                  p \in StableOrders(NodeAt(e, path).children)} :
                               path \in Paths(e)}}

DefaultEq ==
    res.op = "eq_xml" /\ res.ignore_attributes = None /\ res.ignore_whitespace

\* C5: == and != of a bound object never raise: against None and against any
\* value that is no bound object they answer unequal, and against a bound
\* object they answer what the structural comparison answers.
C5_EqNeverRaises ==
    res.op \in {"__eq__", "__ne__"} =>
        /\ ~res.raised
        /\ res.other # "Base" => res.value = (res.op = "__ne__")
        /\ res.other = "Base" =>
              res.value = ((res.op = "__eq__") = eq_xml(this, that, None, TRUE))

\* C6: with no ignored attribute and whitespace ignored, trees that differ
\* only in blanks around texts and tails (or in a blank text or tail against
\* none), at any depth, are equal; trees with a compared pair of elements
\* whose tags, attributes or numbers of children differ are unequal; and the
\* ignored attributes and the whitespace flag of the call apply alike at
\* every depth.
C6_StructuralEquality ==
    /\ DefaultEq =>
          /\ SameButWhitespace(this, that) => res.value
          /\ MismatchSomewhere(this, that) => ~res.value
    /\ res.op = "eq_xml" =>
          res.value = EqualAtEveryDepth(this, that,
                                        IgnoreList(res.ignore_attributes),
                                        res.ignore_whitespace)

C6_Witness ==
    /\ DefaultEq /\ res.value
    /\ SameButWhitespace(this, that)
    /\ Len(this.children) > 0
    /\ this.children[1].children # that.children[1].children

\* C9: the comparison does not depend on the order of children of different
\* tags: reordering the children of any element of either tree, siblings of
\* one tag kept in their own order, leaves the result as it is; and the
\* result is true only if the children, each side ordered by tag, are equal
\* pair by pair.
C9_OrderInsensitive ==
    res.op = "eq_xml" =>
        /\ \A e \in Reordered(this) :
              eq_xml(e, that, res.ignore_attributes, res.ignore_whitespace)
                  = res.value
        /\ \A e \in Reordered(that) :
              eq_xml(this, e, res.ignore_attributes, res.ignore_whitespace)
                  = res.value
        /\ res.value =>
              /\ Len(this.children) = Len(that.children)
              /\ \A i \in 1..Len(this.children) :
                    eq_xml(OrderedByTag(this.children)[i],
                           OrderedByTag(that.children)[i],
                           res.ignore_attributes, res.ignore_whitespace)

C9_Witness ==
    /\ res.op = "eq_xml" /\ res.value
    /\ Len(this.children) = 3
    /\ this.children # that.children
    /\ that \in Reordered(this)
    /\ \E i \in 1..3 : this.children[i].text # None

(***************************************************************************)
(* The claims about one bound object.                                      *)
(***************************************************************************)
Constructing == last.op \in {"__init__", "from_xml"}

\* the path of the element a property path names: at each level the first
\* child of that tag; a 0 where there is none
RECURSIVE FirstPath(_, _)
FirstPath(element, tags) ==
    IF tags = <<>> THEN <<>>
    ELSE LET ks == {i \in 1..Len(element.children) :
                       element.children[i].tag = Head(tags)}
             k == CHOOSE i \in ks : \A j \in ks : i <= j
         IN  IF ks = {} THEN <<0>>
             ELSE <<k>> \o FirstPath(element.children[k], Tail(tags))

Resolves(element, tags) ==
    \A i \in 1..Len(tags) : FirstPath(element, tags)[i] # 0

ReadsNone(member, element) ==
    \A ord \in DictOrders : Property__get__(member, element, ord).value.kind = "None"

\* C1: constructing a binding type on an element (directly or from_xml) whose
\* tag is not the tag of the type raises the tag mismatch and yields no
\* object; with the right tag, or with no element, construction succeeds and
\* the wrapped element has the tag of the type.
C1_TagCheck ==
    /\ Constructing =>
          IF last.given /\ last.before.tag # tag(last.cls)
          THEN last.raised /\ last.error = "TagMismatch" /\ obj = NoObject
          ELSE ~last.raised /\ obj.cls = last.cls
    /\ Bound => obj.element.tag = tag(obj.cls)

C1_Witness ==
    /\ last.op = "from_xml" /\ last.raised
    /\ last.cls = "Person" /\ last.before.tag = "address"

\* C2 as claimed: deleting a property whose leaf is present removes exactly
\* the leaf, and the property then reads absent; deleting one whose leaf is
\* absent raises AttributeError with the owning type and the path and leaves
\* the tree as it was.
C2_DeleteThenAbsent ==
    last.op = "__delete__" =>
        IF Resolves(last.before, last.member.tags)
        THEN /\ ~last.raised
             /\ obj.element = DropAt(last.before,
                                     FirstPath(last.before, last.member.tags))
             /\ ReadsNone(last.member, obj.element)
        ELSE /\ last.raised
             /\ last.error = [kind |-> "AttributeError", class_ |-> obj.cls,
                              path |-> last.member.tags]
             /\ obj.element = last.before

\* the element above the leaf of the path holds one child of the leaf's tag
OnlyLeaf(element, tags) ==
    LET path == FirstPath(element, tags)
        up == NodeAt(element, SubSeq(path, 1, Len(path) - 1))
    IN  CountTag(up, tags[Len(tags)]) = 1

\* C2 as amended: as claimed, but the property reads absent after the delete
\* only when the element above the removed leaf held no other child of the
\* leaf's tag: the next such child is what the property then reads.
C2_Delete ==
    last.op = "__delete__" =>
        IF Resolves(last.before, last.member.tags)
        THEN /\ ~last.raised
             /\ obj.element = DropAt(last.before,
                                     FirstPath(last.before, last.member.tags))
             /\ OnlyLeaf(last.before, last.member.tags) =>
                   ReadsNone(last.member, obj.element)
        ELSE /\ last.raised
             /\ last.error = [kind |-> "AttributeError", class_ |-> obj.cls,
                              path |-> last.member.tags]
             /\ obj.element = last.before

C2_Witness ==
    /\ last.op = "__delete__" /\ ~last.raised
    /\ Len(last.member.tags) = 2
    /\ Size(obj.element) = Size(last.before) - 1

C2_WitnessAbsent ==
    /\ last.op = "__delete__" /\ last.raised /\ Size(last.before) > 1

IsPrefix(s, t) == Len(s) <= Len(t) /\ SubSeq(t, 1, Len(s)) = s

\* an element of the tree before is found at its path after, with the children
\* it had in front of those it gained, and with no second child of a tag it
\* had a child of
GrownOnly(before, after) ==
    \A p \in Paths(before) :
        /\ p \in Paths(after)
        /\ NodeAt(after, p).tag = NodeAt(before, p).tag
        /\ Len(NodeAt(before, p).children) <= Len(NodeAt(after, p).children)
        /\ \A i \in 1..Len(NodeAt(before, p).children) :
              NodeAt(after, p).children[i].tag = NodeAt(before, p).children[i].tag
        /\ \A i \in 1..Len(TagOrder) :
              CountTag(NodeAt(before, p), TagOrder[i]) > 0 =>
                  CountTag(NodeAt(after, p), TagOrder[i])
                      = CountTag(NodeAt(before, p), TagOrder[i])

NoTwins(element) ==
    \A p \in Paths(element) : \A i \in 1..Len(TagOrder) :
        CountTag(NodeAt(element, p), TagOrder[i]) <= 1

\* C3: search with create takes the first child of the tag at each level and
\* creates an empty element, as the last child, only at the levels without
\* such a child; so property writes whose paths share a prefix share the
\* elements of the prefix, and no write adds a child tagged t to an element
\* that has a child tagged t.
C3_SearchReuses ==
    /\ (last.op = "search" /\ last.create) =>
          /\ last.found
          /\ last.leaf = FirstPath(obj.element, last.tags)
          /\ GrownOnly(last.before, obj.element)
          /\ \A p \in Paths(obj.element) :
                (p \in last.created) = (p \notin Paths(last.before))
          /\ \A p \in last.created :
                /\ IsPrefix(p, last.leaf)
                /\ p[Len(p)] = Len(NodeAt(obj.element,
                                          SubSeq(p, 1, Len(p) - 1)).children)
                /\ NodeAt(obj.element, p).text = None
                /\ NodeAt(obj.element, p).tail = None
                /\ NodeAt(obj.element, p).tag = last.tags[Len(p)]
                /\ Len(NodeAt(obj.element, p).children)
                      = (IF p = last.leaf THEN 0 ELSE 1)
                /\ NodeAt(obj.element, p).attrib # {} =>
                      \E i \in 1..Len(last.stamped) : last.stamped[i] = p
    /\ (last.op = "__set__" /\ last.member.kind # "child") =>
          GrownOnly(last.before, obj.element)
    /\ last.op = "__set__" =>
          \A i \in 1..Len(TagOrder) :
              CountTag(last.before, TagOrder[i]) > 0 =>
                  CountTag(obj.element, TagOrder[i])
                      = CountTag(last.before, TagOrder[i])
    /\ hist.fresh => NoTwins(obj.element)

C3_Witness ==
    /\ hist.fresh /\ obj.cls = "Address" /\ last.op = "__set__"
    /\ Len(obj.element.children) = 1
    /\ obj.element.children[1].tag = "street"
    /\ Len(obj.element.children[1].children) = 2
    /\ obj.element.children[1].children[1].text = <<"v">>
    /\ obj.element.children[1].children[2].text = <<"v">>

SamePath(i, j) == last.log[i].member.tags = last.log[j].member.tags

\* C4 as claimed: after construction every auto property met by the loop has
\* its default written if and only if it read absent when it was met: one
\* that was present is not overwritten, and of several ancestors' auto
\* properties on one path only the first met writes its default.  A new
\* AddressBookEntry has person and address, each an empty element of the
\* nested type.
C4_OnlyFirstWrites ==
    (Constructing /\ ~last.raised) =>
        \A i, j \in 1..Len(last.log) :
            (i < j /\ SamePath(i, j)) => ~(last.log[i].wrote /\ last.log[j].wrote)

\* C4 as amended: as claimed, but of several ancestors' auto properties on
\* one path a later one is skipped only once the property reads present:
\* after a default that leaves the property reading absent (None) the next
\* one met writes its default too.
C4_Defaults ==
    (Constructing /\ ~last.raised) =>
        /\ \A i \in 1..Len(last.log) :
              /\ last.log[i].wrote = last.log[i].absent
              /\ last.log[i].absent = ReadsNone(last.log[i].member, last.log[i].before)
              /\ ~last.log[i].absent => last.log[i].after = last.log[i].before
              /\ last.log[i].wrote =>
                    /\ Resolves(last.log[i].after, last.log[i].member.tags)
                    /\ last.log[i].member.default.kind = "text" =>
                          Property__get__(last.log[i].member, last.log[i].after,
                                          CHOOSE ord \in DictOrders : TRUE).value
                              = last.log[i].member.default
        /\ \A i, j \in 1..Len(last.log) :
              (/\ i < j /\ SamePath(i, j)
               /\ ~ReadsNone(last.log[i].member, last.log[i].after))
                  => ~last.log[j].wrote
        /\ (last.cls = "AddressBookEntry" /\ ~last.given) =>
              /\ Len(last.log) = 2
              /\ {obj.element.children[i] : i \in 1..Len(obj.element.children)}
                    = {Element("person"), Element("address")}
              /\ \A m \in Members("AddressBookEntry") :
                    ~ReadsNone(m, obj.element)

C4_Witness ==
    /\ Constructing /\ ~last.raised /\ last.cls = "Memo" /\ last.given
    /\ Len(last.log) = 2
    /\ last.log[1].wrote /\ ~last.log[2].wrote

C4_WitnessKept ==
    /\ Constructing /\ ~last.raised /\ last.cls = "Note" /\ last.given
    /\ ~last.log[1].wrote
    /\ obj.element.children[1].text = <<"w">>

ListOp == IsList(obj.cls)

ValidKey(key, before) == Position(key, Len(before.children)) # 0

\* C7 as claimed: appending N objects to an empty list yields length N, each
\* append making the value's element the last child and the list the value's
\* parent; an indexed write replaces the element at k by the value's and
\* keeps the length; an indexed read returns an instance of the element type
\* on the element at k, its parent the list; an indexed delete removes the
\* element at k and nothing else.
C7_ListOperations ==
    /\ last.op = "append" =>
          /\ obj.element.children[Len(obj.element.children)] = last.value.element
          /\ last.valueParent = "self"
          /\ hist.emptied => Len(obj.element.children) = hist.appends
    /\ (last.op = "__setitem__" /\ ValidKey(last.key, last.before)) =>
          /\ ~last.raised
          /\ last.valueParent = "self"
          /\ Len(obj.element.children) = Len(last.before.children)
          /\ obj.element.children[Position(last.key, Len(last.before.children))]
                = last.value.element
    /\ (last.op = "__getitem__" /\ ValidKey(last.key, last.before)) =>
          /\ ~last.raised
          /\ last.item.kind = "object" /\ last.item.cls = of(obj.cls)
          /\ last.item.element
                = obj.element.children[Position(last.key, Len(last.before.children))]
          /\ last.itemParent = "self"
    /\ (last.op = "__delitem__" /\ ValidKey(last.key, last.before)) =>
          /\ ~last.raised
          /\ obj.element.children
                = RemoveAt(last.before.children,
                           Position(last.key, Len(last.before.children)))

\* C7 as amended: as claimed for a value whose element is not yet a child of
\* the list, and for an indexed read of a child that has the tag of the
\* element type.  A value that wraps a child of the list is moved: appended,
\* it becomes the last child and the length stays; written at k, it takes the
\* place of another element at k and leaves its own, so the length drops by
\* one.  An indexed read of a child with another
\* tag raises the tag mismatch.
C7_ListOperationsDetached ==
    /\ last.op = "append" =>
          /\ obj.element.children[Len(obj.element.children)] = last.value.element
          /\ last.valueParent = "self"
          /\ last.value.at = 0 =>
                obj.element.children = Append(last.before.children, last.value.element)
          /\ last.value.at # 0 =>
                obj.element.children
                    = Append(RemoveAt(last.before.children, last.value.at),
                             last.value.element)
          /\ (hist.emptied /\ hist.detached) =>
                Len(obj.element.children) = hist.appends
    /\ (last.op = "__setitem__" /\ ValidKey(last.key, last.before)) =>
          LET at == Position(last.key, Len(last.before.children))
          IN  /\ ~last.raised
              /\ last.valueParent = "self"
              /\ last.value.at = 0 =>
                    obj.element.children
                        = ReplaceAt(last.before.children, at, last.value.element)
              /\ last.value.at \notin {0, at} =>
                    /\ Len(obj.element.children) = Len(last.before.children) - 1
                    /\ obj.element.children
                          [IF last.value.at < at THEN at - 1 ELSE at]
                          = last.value.element
    /\ (last.op = "__getitem__" /\ ValidKey(last.key, last.before)) =>
          LET at == Position(last.key, Len(last.before.children))
          IN  IF last.before.children[at].tag = tag(of(obj.cls))
              THEN /\ ~last.raised
                   /\ last.item.kind = "object" /\ last.item.cls = of(obj.cls)
                   /\ last.item.element = obj.element.children[at]
                   /\ last.itemParent = "self"
              ELSE last.raised /\ last.error = "TagMismatch"
                   /\ obj.element = last.before
    /\ (last.op = "__delitem__" /\ ValidKey(last.key, last.before)) =>
          /\ ~last.raised
          /\ obj.element.children
                = RemoveAt(last.before.children,
                           Position(last.key, Len(last.before.children)))
    /\ (last.op \in {"__setitem__", "__getitem__", "__delitem__"}
        /\ ~ValidKey(last.key, last.before)) =>
          last.raised /\ obj.element = last.before

C7_Witness ==
    /\ last.op = "__delitem__" /\ ~last.raised /\ last.key = 1
    /\ Len(last.before.children) = 3
    /\ last.before.children[1] # last.before.children[3]

C7_WitnessAppends ==
    /\ last.op = "append" /\ hist.emptied /\ hist.detached /\ hist.appends = 3

\* C8: search with create and a set_attributes callback, on a path of one or
\* more tags, calls the callback once on the leaf if the search created the
\* leaf, and never on a created element above the leaf nor on a leaf that
\* was there.
C8_CallbackOnNewLeaf ==
    (last.op = "search" /\ last.create /\ last.callback) =>
        /\ last.leaf \in last.created => last.stamped = <<last.leaf>>
        /\ last.leaf \notin last.created => last.stamped = <<>>
        /\ \A i \in 1..Len(last.stamped) : last.stamped[i] = last.leaf

PureOps ==
    {"__len__", "__eq__", "__ne__", "__hash__", "to_xml", "__str__"}

Reading ==
    \/ last.op \in PureOps \cup {"__get__", "__getitem__", "__iter__"}
    \/ last.op = "search" /\ ~last.create

Populated(cls, element) ==
    \A i \in 1..Len(getmro(cls)) : \A m \in Members(getmro(cls)[i]) :
        m.auto => ~ReadsNone(m, element)

\* element with every default of cls that the constructor may write
WithDefaults(cls, element) ==
    {_set_default_properties(cls, element, ord).element : ord \in DictOrders}

C10_WitnessGet ==
    /\ last.op = "__get__" /\ last.value.kind = "object"
    /\ obj.element = last.before

====
